---- MODULE Spec2Model ----
(***************************************************************************)
(* Expression type / nullability / field / cast resolution of the logical  *)
(* plan: the ExprSchemable implementation for Expr                         *)
(* (datafusion/core/src/logical_plan/expr_schema.rs).                      *)
(*                                                                         *)
(* The four trait methods are pure functions of (expression, schema).     *)
(* They are modelled as recursive operators; the state machine holds one   *)
(* owned expression and one schema and applies the methods to them.        *)
(***************************************************************************)
EXTENDS Integers, Sequences, FiniteSets, TLC

VARIABLES expr, schema, call

vars ==
    <<expr, schema, call>>

(***************************************************************************)
(* Bounds of the model.                                                    *)
(***************************************************************************)
\* Nesting depth of the expression trees the resolver is applied to.
MaxDepth ==
    1

(***************************************************************************)
(* Result<T>: Ok(v), Err(e), or a panic unwinding out of the call.         *)
(***************************************************************************)
Ok(v) ==
    [tag |-> "Ok", val |-> v]

Err(kind, detail) ==
    [tag |-> "Err", kind |-> kind, detail |-> detail]

Panic ==
    [tag |-> "Panic"]

IsOk(r) ==
    r.tag = "Ok"

IsErr(r) ==
    r.tag = "Err"

(***************************************************************************)
(* DataType: the slice of arrow's type catalog the model draws from.       *)
(***************************************************************************)
DataTypes ==
    {"Int32", "Utf8", "Boolean", "Struct"}

(***************************************************************************)
(* Collaborators of the resolver that live outside this file.              *)
(***************************************************************************)
\* ExprSchema / DFSchema: an ordered sequence of fields.
DFField(qualifier, name, data_type, is_nullable) ==
    [qualifier |-> qualifier, name |-> name,
     data_type |-> data_type, nullable |-> is_nullable]

\* Fields of the schema a column reference resolves to: an unqualified
\* reference matches by name, a qualified one by qualifier and name.
field_from_column(s, c) ==
    LET hits == {i \in 1..Len(s) :
                    /\ s[i].name = c.name
                    /\ (c.relation = <<>> \/ s[i].qualifier = c.relation)}
    IN  IF hits = {}
        THEN Err("SchemaError", c.relation \o <<c.name>>)
        ELSE Ok(s[CHOOSE i \in hits : \A j \in hits : i <= j])

\* ExprSchema::data_type
schema_data_type(s, c) ==
    LET f == field_from_column(s, c)
    IN  IF IsOk(f) THEN Ok(f.val.data_type) ELSE f

\* ExprSchema::nullable
schema_nullable(s, c) ==
    LET f == field_from_column(s, c)
    IN  IF IsOk(f) THEN Ok(f.val.nullable) ELSE f

\* function::return_type, window_function::return_type,
\* aggregate_function::return_type and the return_type closure of a UDF/UDAF:
\* given the resolved argument types, a type or an error.  The functions of
\* the model: "now" takes no argument, every other takes numeric arguments.
return_type(fun, data_types) ==
    IF fun = "now"
    THEN IF data_types = <<>> THEN Ok("Utf8")
         ELSE Err("Plan", <<fun>> \o data_types)
    ELSE IF data_types # <<>> /\ \A i \in 1..Len(data_types) : data_types[i] = "Int32"
         THEN Ok("Int32")
         ELSE Err("Plan", <<fun>> \o data_types)

\* binary_rule::binary_operator_data_type
binary_operator_data_type(lhs, op, rhs) ==
    CASE op = "Plus" ->
            IF lhs = "Int32" /\ rhs = "Int32" THEN Ok("Int32")
            ELSE Err("Plan", <<lhs, op, rhs>>)
      [] op = "Eq" ->
            IF lhs = rhs /\ lhs # "Struct" THEN Ok("Boolean")
            ELSE Err("Plan", <<lhs, op, rhs>>)

\* field_util::get_indexed_field: the field of a composite type under a key.
get_indexed_field(data_type, key) ==
    IF data_type = "Struct" /\ key = "x" THEN Ok(DFField(<<>>, key, "Int32", FALSE))
    ELSE IF data_type = "Struct" /\ key = "y" THEN Ok(DFField(<<>>, key, "Utf8", TRUE))
    ELSE Err("Plan", <<"get_indexed_field", data_type, key>>)

\* arrow::compute::can_cast_types
can_cast_types(from_type, to_type) ==
    \/ from_type = to_type
    \/ from_type \in {"Int32", "Utf8", "Boolean"} /\ to_type \in {"Int32", "Utf8"}
    \/ from_type = "Int32" /\ to_type = "Boolean"

(***************************************************************************)
(* Expr: one record per variant of the enum, with the fields the resolver  *)
(* matches on.  An Option is a sequence of length 0 or 1.                  *)
(***************************************************************************)
Column(relation, name) ==
    [kind |-> "Column", relation |-> relation, name |-> name]

Literal(data_type, is_null) ==
    [kind |-> "Literal", data_type |-> data_type, is_null |-> is_null]

ScalarVariable(data_type) ==
    [kind |-> "ScalarVariable", data_type |-> data_type]

Alias(e, name) ==
    [kind |-> "Alias", expr |-> e, name |-> name]

Unary(kind, e) ==
    [kind |-> kind, expr |-> e]

Between(e, low, high) ==
    [kind |-> "Between", expr |-> e, low |-> low, high |-> high]

InList(e, list) ==
    [kind |-> "InList", expr |-> e, list |-> list]

Case(when_then_expr, else_expr) ==
    [kind |-> "Case", when_then_expr |-> when_then_expr, else_expr |-> else_expr]

Cast(e, data_type) ==
    [kind |-> "Cast", expr |-> e, data_type |-> data_type]

TryCast(e, data_type) ==
    [kind |-> "TryCast", expr |-> e, data_type |-> data_type]

Function(kind, fun, args) ==
    [kind |-> kind, fun |-> fun, args |-> args]

BinaryExpr(left, op, right) ==
    [kind |-> "BinaryExpr", left |-> left, op |-> op, right |-> right]

Wildcard ==
    [kind |-> "Wildcard"]

QualifiedWildcard(qualifier) ==
    [kind |-> "QualifiedWildcard", qualifier |-> qualifier]

GetIndexedField(e, key) ==
    [kind |-> "GetIndexedField", expr |-> e, key |-> key]

FunctionKinds ==
    {"ScalarUDF", "ScalarFunction", "WindowFunction",
     "AggregateFunction", "AggregateUDF"}

(***************************************************************************)
(* ExprSchemable::get_type                                                 *)
(***************************************************************************)
RECURSIVE get_type(_, _)
RECURSIVE get_types(_, _)
RECURSIVE nullable(_, _)
RECURSIVE nullables(_, _)

\* args.iter().map(|e| e.get_type(schema)).collect::<Result<Vec<_>>>():
\* the types in order, or the first failure.
get_types(args, s) ==
    IF args = <<>> THEN Ok(<<>>)
    ELSE LET h == get_type(Head(args), s)
         IN  IF ~IsOk(h) THEN h
             ELSE LET t == get_types(Tail(args), s)
                  IN  IF ~IsOk(t) THEN t ELSE Ok(<<h.val>> \o t.val)

\* Expr::Case: the type of the first then-branch; indexing an empty
\* when_then_expr is out of bounds.
get_type_case(when_then_expr, s) ==
    IF Len(when_then_expr) = 0 THEN Panic
    ELSE get_type(when_then_expr[1][2], s)

\* A function call: the arguments' types, then the function's return type.
get_type_function(fun, data_types) ==
    IF ~IsOk(data_types) THEN data_types
    ELSE return_type(fun, data_types.val)

\* Mutation: a failure of the right operand is swallowed and the left
\* operand's type returned.
get_type_binary_left_only(left_type, op, right_type) ==
    IF ~IsOk(left_type) THEN left_type
    ELSE IF ~IsOk(right_type) THEN left_type
    ELSE binary_operator_data_type(left_type.val, op, right_type.val)

\* Expr::BinaryExpr: left?, right?, then the operator's type rule.
get_type_binary(left_type, op, right_type) ==
    IF ~IsOk(left_type) THEN left_type
    ELSE IF ~IsOk(right_type) THEN right_type
    ELSE binary_operator_data_type(left_type.val, op, right_type.val)

\* Expr::Wildcard and Expr::QualifiedWildcard.
get_type_wildcard(kind) ==
    Err("Internal", <<kind, "expressions are not valid in a logical query plan">>)

\* Expr::GetIndexedField: the parent's type?, then the nested field's type.
get_type_indexed_field(data_type, key) ==
    IF ~IsOk(data_type) THEN data_type
    ELSE LET f == get_indexed_field(data_type.val, key)
         IN  IF IsOk(f) THEN Ok(f.val.data_type) ELSE f

get_type(e, s) ==
    CASE e.kind \in {"Alias", "Sort", "Negative"} -> get_type(e.expr, s)
      [] e.kind = "Column" -> schema_data_type(s, e)
      [] e.kind = "ScalarVariable" -> Ok(e.data_type)
      [] e.kind = "Literal" -> Ok(e.data_type)
      [] e.kind = "Case" -> get_type_case(e.when_then_expr, s)
      [] e.kind \in {"Cast", "TryCast"} -> Ok(e.data_type)
      [] e.kind \in FunctionKinds ->
            get_type_function(e.fun, get_types(e.args, s))
      [] e.kind \in {"Not", "IsNull", "Between", "InList", "IsNotNull"} ->
            Ok("Boolean")
      [] e.kind = "BinaryExpr" ->
            get_type_binary(get_type(e.left, s), e.op, get_type(e.right, s))
      [] e.kind \in {"Wildcard", "QualifiedWildcard"} -> get_type_wildcard(e.kind)
      [] e.kind = "GetIndexedField" ->
            get_type_indexed_field(get_type(e.expr, s), e.key)

(***************************************************************************)
(* ExprSchemable::nullable                                                 *)
(***************************************************************************)
\* when_then_expr.iter().map(|(_, t)| t.nullable(..)).collect::<Result<Vec<_>>>()
nullables(when_then_expr, s) ==
    IF when_then_expr = <<>> THEN Ok(<<>>)
    ELSE LET h == nullable(Head(when_then_expr)[2], s)
         IN  IF ~IsOk(h) THEN h
             ELSE LET t == nullables(Tail(when_then_expr), s)
                  IN  IF ~IsOk(t) THEN t ELSE Ok(<<h.val>> \o t.val)

\* Expr::Case: true if a then-branch is nullable, else the else-branch's
\* nullability, else false.  else_nullable is <<>> when there is no else.
nullable_case(then_nullable, else_nullable) ==
    IF ~IsOk(then_nullable) THEN then_nullable
    ELSE IF \E i \in 1..Len(then_nullable.val) : then_nullable.val[i]
    THEN Ok(TRUE)
    ELSE IF else_nullable # <<>> THEN else_nullable[1]
    ELSE Ok(FALSE)

\* Mutation: IsNull and IsNotNull fall into the always-nullable arm.
nullable_is_null_opaque ==
    Ok(TRUE)

\* Expr::IsNull and Expr::IsNotNull.
nullable_is_null ==
    Ok(FALSE)

\* Scalar variables, try-casts and function calls.
nullable_opaque ==
    Ok(TRUE)

\* Mutation: && in place of ||.
nullable_binary_and(left_nullable, right_nullable) ==
    IF ~IsOk(left_nullable) THEN left_nullable
    ELSE IF ~left_nullable.val THEN Ok(FALSE)
    ELSE right_nullable

\* Expr::BinaryExpr: left? || right?, the right side only when the left is
\* not nullable.
nullable_binary(left_nullable, right_nullable) ==
    IF ~IsOk(left_nullable) THEN left_nullable
    ELSE IF left_nullable.val THEN Ok(TRUE)
    ELSE right_nullable

\* Mutation: the wildcards fall into the always-nullable arm.
nullable_wildcard_opaque(kind) ==
    Ok(TRUE)

\* Expr::Wildcard and Expr::QualifiedWildcard.
nullable_wildcard(kind) ==
    Err("Internal", <<kind, "expressions are not valid in a logical query plan">>)

\* Mutation: GetIndexedField falls into the always-nullable arm.
nullable_indexed_field_opaque(data_type, key) ==
    Ok(TRUE)

\* Expr::GetIndexedField: the parent's type?, then the nested field's flag.
nullable_indexed_field(data_type, key) ==
    IF ~IsOk(data_type) THEN data_type
    ELSE LET f == get_indexed_field(data_type.val, key)
         IN  IF IsOk(f) THEN Ok(f.val.nullable) ELSE f

nullable(e, s) ==
    CASE e.kind \in {"Alias", "Not", "Negative", "Sort", "Between", "InList"} ->
            nullable(e.expr, s)
      [] e.kind = "Column" -> schema_nullable(s, e)
      [] e.kind = "Literal" -> Ok(e.is_null)
      [] e.kind = "Case" ->
            nullable_case(nullables(e.when_then_expr, s),
                          IF e.else_expr = <<>> THEN <<>>
                          ELSE <<nullable(e.else_expr[1], s)>>)
      [] e.kind = "Cast" -> nullable(e.expr, s)
      [] e.kind \in {"ScalarVariable", "TryCast"} \cup FunctionKinds -> nullable_opaque
      [] e.kind \in {"IsNull", "IsNotNull"} -> nullable_is_null
      [] e.kind = "BinaryExpr" ->
            nullable_binary(nullable(e.left, s), nullable(e.right, s))
      [] e.kind \in {"Wildcard", "QualifiedWildcard"} -> nullable_wildcard(e.kind)
      [] e.kind = "GetIndexedField" ->
            nullable_indexed_field(get_type(e.expr, s), e.key)

(***************************************************************************)
(* Expr::name: the canonical textual rendering that names a derived field. *)
(***************************************************************************)
RECURSIVE create_name(_)
RECURSIVE create_names(_)
RECURSIVE create_when_then(_)

create_when_then(when_then_expr) ==
    IF when_then_expr = <<>> THEN ""
    ELSE " WHEN " \o create_name(Head(when_then_expr)[1])
            \o " THEN " \o create_name(Head(when_then_expr)[2])
            \o create_when_then(Tail(when_then_expr))

create_names(args) ==
    IF args = <<>> THEN ""
    ELSE IF Len(args) = 1 THEN create_name(args[1])
    ELSE create_name(Head(args)) \o ", " \o create_names(Tail(args))

create_name(e) ==
    CASE e.kind = "Alias" -> e.name
      [] e.kind = "Column" ->
            IF e.relation = <<>> THEN "#" \o e.name
            ELSE "#" \o e.relation[1] \o "." \o e.name
      [] e.kind = "ScalarVariable" -> "@var"
      [] e.kind = "Literal" ->
            IF e.is_null THEN e.data_type \o "(NULL)" ELSE e.data_type \o "(1)"
      [] e.kind = "Sort" -> create_name(e.expr) \o " ASC"
      [] e.kind = "Negative" -> "(- " \o create_name(e.expr) \o ")"
      [] e.kind = "Not" -> "NOT " \o create_name(e.expr)
      [] e.kind = "IsNull" -> create_name(e.expr) \o " IS NULL"
      [] e.kind = "IsNotNull" -> create_name(e.expr) \o " IS NOT NULL"
      [] e.kind = "Between" ->
            create_name(e.expr) \o " BETWEEN " \o create_name(e.low)
                \o " AND " \o create_name(e.high)
      [] e.kind = "InList" ->
            create_name(e.expr) \o " IN (" \o create_names(e.list) \o ")"
      [] e.kind = "Case" ->
            "CASE" \o create_when_then(e.when_then_expr)
                \o (IF e.else_expr = <<>> THEN ""
                    ELSE " ELSE " \o create_name(e.else_expr[1]))
                \o " END"
      [] e.kind = "Cast" ->
            "CAST(" \o create_name(e.expr) \o " AS " \o e.data_type \o ")"
      [] e.kind = "TryCast" ->
            "TRY_CAST(" \o create_name(e.expr) \o " AS " \o e.data_type \o ")"
      [] e.kind \in FunctionKinds ->
            e.fun \o "(" \o create_names(e.args) \o ")"
      [] e.kind = "BinaryExpr" ->
            create_name(e.left) \o " " \o e.op \o " " \o create_name(e.right)
      [] e.kind = "Wildcard" -> "*"
      [] e.kind = "QualifiedWildcard" -> e.qualifier \o ".*"
      [] e.kind = "GetIndexedField" ->
            create_name(e.expr) \o "[" \o e.key \o "]"

name(e, s) ==
    Ok(create_name(e))

(***************************************************************************)
(* ExprSchemable::to_field                                                 *)
(***************************************************************************)
\* DFField::new(qualifier, name, get_type?, nullable?): the arguments are
\* evaluated in order, each failure returning at once.
new_field(qualifier, field_name, data_type, is_nullable) ==
    IF ~IsOk(field_name) THEN field_name
    ELSE IF ~IsOk(data_type) THEN data_type
    ELSE IF ~IsOk(is_nullable) THEN is_nullable
    ELSE Ok(DFField(qualifier, field_name.val, data_type.val, is_nullable.val))

\* Mutation: no arm for Expr::Column, every expression takes the other one.
to_field_unqualified(e, s) ==
    new_field(<<>>, name(e, s), get_type(e, s), nullable(e, s))

to_field(e, s) ==
    IF e.kind = "Column"
    THEN new_field(e.relation, Ok(e.name), get_type(e, s), nullable(e, s))
    ELSE new_field(<<>>, name(e, s), get_type(e, s), nullable(e, s))

(***************************************************************************)
(* ExprSchemable::cast_to                                                  *)
(***************************************************************************)
\* Mutation: no test for the type being the target type already.
cast_to_always_wraps(e, cast_to_type, s) ==
    LET this_type == get_type(e, s)
    IN  IF ~IsOk(this_type) THEN this_type
        ELSE IF can_cast_types(this_type.val, cast_to_type)
        THEN Ok(Cast(e, cast_to_type))
        ELSE Err("Plan", <<"Cannot automatically convert",
                           this_type.val, cast_to_type>>)

\* Mutation: no test that the cast is legal.
cast_to_unchecked(e, cast_to_type, s) ==
    LET this_type == get_type(e, s)
    IN  IF ~IsOk(this_type) THEN this_type
        ELSE IF this_type.val = cast_to_type THEN Ok(e)
        ELSE Ok(Cast(e, cast_to_type))

cast_to(e, cast_to_type, s) ==
    LET this_type == get_type(e, s)
    IN  IF ~IsOk(this_type) THEN this_type
        ELSE IF this_type.val = cast_to_type THEN Ok(e)
        ELSE IF can_cast_types(this_type.val, cast_to_type)
        THEN Ok(Cast(e, cast_to_type))
        ELSE Err("Plan", <<"Cannot automatically convert",
                           this_type.val, cast_to_type>>)

(***************************************************************************)
(* The expressions and schemas the methods are applied to.                 *)
(***************************************************************************)
\* A schema of table t: a and s are declared NOT NULL, b is nullable.
TableSchema ==
    <<DFField(<<"t">>, "a", "Int32", FALSE),
      DFField(<<"t">>, "b", "Int32", TRUE),
      DFField(<<"t">>, "s", "Struct", FALSE)>>

Schemas ==
    {<<>>, TableSchema}

\* Column m is in no schema.
Operands ==
    {Column(<<>>, "a"), Column(<<"t">>, "b"), Column(<<>>, "m")}

One ==
    Literal("Int32", FALSE)

Flag ==
    ScalarVariable("Boolean")

Leaves ==
    Operands \cup
    {Column(<<>>, "s"), One, Literal("Utf8", TRUE), Flag,
     Wildcard, QualifiedWildcard("t"),
     Case(<<>>, <<>>), Function("ScalarFunction", "now", <<>>)}

\* Every variant built over a child c, its other operands fixed leaves.
Wrap(c) ==
    {Alias(c, "n")}
    \cup {Unary(k, c) : k \in {"Sort", "Negative", "Not", "IsNull", "IsNotNull"}}
    \cup {Between(c, One, One), Between(One, c, One)}
    \cup {InList(c, <<One>>), InList(One, <<c>>)}
    \cup {Cast(c, t) : t \in {"Int32", "Utf8"}}
    \cup {TryCast(c, t) : t \in {"Int32", "Utf8"}}
    \cup {GetIndexedField(c, k) : k \in {"x", "y", "z"}}
    \cup {Function(k, "f", <<c>>) : k \in FunctionKinds}
    \cup {Function(k, "f", <<One, c>>) : k \in FunctionKinds}
    \cup {BinaryExpr(c, op, o) : op \in {"Plus", "Eq"}, o \in Operands}
    \cup {BinaryExpr(o, op, c) : op \in {"Plus", "Eq"}, o \in Operands}
    \cup {Case(<<<<Flag, c>>>>, <<>>), Case(<<<<c, One>>>>, <<>>),
          Case(<<<<Flag, One>>, <<Flag, c>>>>, <<>>),
          Case(<<<<Flag, One>>>>, <<c>>)}
    \cup {Case(<<<<Flag, c>>>>, <<o>>) : o \in Operands}

RECURSIVE ExprsUpTo(_)
ExprsUpTo(d) ==
    IF d = 0 THEN Leaves
    ELSE LET sub == ExprsUpTo(d - 1)
         IN  sub \cup UNION {Wrap(c) : c \in sub}

\* The sub-expressions a node owns.
Children(e) ==
    CASE e.kind \in {"Alias", "Sort", "Negative", "Not", "IsNull", "IsNotNull",
                     "Cast", "TryCast", "GetIndexedField"} -> {e.expr}
      [] e.kind = "Between" -> {e.expr, e.low, e.high}
      [] e.kind = "InList" -> {e.expr} \cup {e.list[i] : i \in 1..Len(e.list)}
      [] e.kind = "Case" ->
            {e.when_then_expr[i][1] : i \in 1..Len(e.when_then_expr)}
            \cup {e.when_then_expr[i][2] : i \in 1..Len(e.when_then_expr)}
            \cup {e.else_expr[i] : i \in 1..Len(e.else_expr)}
      [] e.kind \in FunctionKinds -> {e.args[i] : i \in 1..Len(e.args)}
      [] e.kind = "BinaryExpr" -> {e.left, e.right}
      [] OTHER -> {}

RECURSIVE Depth(_)
Depth(e) ==
    IF Children(e) = {} THEN 0
    ELSE LET ds == {Depth(c) : c \in Children(e)}
         IN  1 + CHOOSE d \in ds : \A x \in ds : x <= d

(***************************************************************************)
(* The state machine: a caller holding an expression and a schema calls    *)
(* the four methods.  call records the last call and what it returned.     *)
(***************************************************************************)
NoCall ==
    [op |-> "none"]

Called(op, input, target, result) ==
    [op |-> op, input |-> input, target |-> target, result |-> result]

\* A panic ends the caller.
Aborted ==
    call.op # "none" /\ call.result = Panic

Init ==
    /\ expr \in ExprsUpTo(MaxDepth)
    /\ schema \in Schemas
    /\ call = NoCall

GetType ==
    /\ ~Aborted
    /\ call' = Called("get_type", expr, "", get_type(expr, schema))
    /\ UNCHANGED <<expr, schema>>

Nullable ==
    /\ ~Aborted
    /\ call' = Called("nullable", expr, "", nullable(expr, schema))
    /\ UNCHANGED <<expr, schema>>

ToField ==
    /\ ~Aborted
    /\ call' = Called("to_field", expr, "", to_field(expr, schema))
    /\ UNCHANGED <<expr, schema>>

\* cast_to takes the expression by value: the caller goes on with the
\* expression it returns, and with its own copy when it fails.
CastTo ==
    /\ ~Aborted
    /\ Depth(expr) <= MaxDepth
    /\ \E t \in DataTypes :
          LET r == cast_to(expr, t, schema)
          IN  /\ call' = Called("cast_to", expr, t, r)
              /\ expr' = IF IsOk(r) THEN r.val ELSE expr
    /\ UNCHANGED schema

Next ==
    \/ GetType
    \/ Nullable
    \/ ToField
    \/ CastTo

Spec ==
    Init /\ [][Next]_vars

(***************************************************************************)
(* Vocabulary of the properties.                                           *)
(***************************************************************************)
\* The last call was method op, applied to call.input under schema.
Did(op) ==
    call.op = op

\* r is Ok(v).
Returned(r, v) ==
    IsOk(r) /\ r.val = v

\* What the two resolvers give for a sub-expression under the schema.
TypeOf(e) ==
    get_type(e, schema)

NullableOf(e) ==
    nullable(e, schema)

\* Every expression below e, e excluded.
RECURSIVE SubExprs(_)
SubExprs(e) ==
    Children(e) \cup UNION {SubExprs(c) : c \in Children(e)}

(***************************************************************************)
(* C1  A Case with no else-branch whose then-branches resolve is nullable, *)
(* whatever the nullability of the then-branches.                          *)
(***************************************************************************)
C1_CaseWithoutElseIsNullable ==
    ( /\ Did("nullable")
      /\ call.input.kind = "Case"
      /\ call.input.else_expr = <<>>
      /\ call.input.when_then_expr # <<>>
      /\ IsOk(nullables(call.input.when_then_expr, schema)) )
    => Returned(call.result, TRUE)

(***************************************************************************)
(* C2  When get_type(e, s) succeeds and equals the target type T,          *)
(* cast_to(e, T, s) succeeds and returns exactly e: no Cast node is added. *)
(* Hence after a successful cast_to the same call again returns its        *)
(* argument, and the tree never grows.                                     *)
(***************************************************************************)
C2_CastToSameTypeIsIdentity ==
    Did("cast_to") =>
        /\ Returned(TypeOf(call.input), call.target)
              => call.result = Ok(call.input) /\ expr = call.input
        /\ IsOk(call.result)
              => cast_to(expr, call.target, schema) = Ok(expr)

\* cast_to to Utf8 handed back, unchanged, a Cast to Utf8 of an Int32 value.
C2_Witness ==
    /\ Did("cast_to")
    /\ call.input.kind = "Cast"
    /\ Returned(TypeOf(call.input.expr), "Int32")
    /\ call.target = "Utf8"
    /\ call.result = Ok(call.input)
    /\ expr = call.input

(***************************************************************************)
(* C3  When the resolved type S differs from the target T: if S can be     *)
(* cast to T, cast_to returns Cast(e, T), whose type is T; if not, it      *)
(* returns a plan error naming S and T and no expression.  When get_type   *)
(* fails, cast_to fails with that error.                                   *)
(***************************************************************************)
C3_CastToWrapsOrRejects ==
    Did("cast_to") =>
        LET this_type == TypeOf(call.input)
        IN  /\ ( /\ IsOk(this_type)
                 /\ this_type.val # call.target
                 /\ can_cast_types(this_type.val, call.target) )
               => /\ call.result = Ok(Cast(call.input, call.target))
                  /\ expr = Cast(call.input, call.target)
                  /\ TypeOf(expr) = Ok(call.target)
            /\ ( /\ IsOk(this_type)
                 /\ this_type.val # call.target
                 /\ ~can_cast_types(this_type.val, call.target) )
               => /\ IsErr(call.result)
                  /\ call.result.kind = "Plan"
                  /\ \E i, j \in 1..Len(call.result.detail) :
                        /\ i < j
                        /\ call.result.detail[i] = this_type.val
                        /\ call.result.detail[j] = call.target
                  /\ expr = call.input
            /\ IsErr(this_type) => call.result = this_type

\* An Int32 column was refused a cast to a composite type.
C3_Witness ==
    /\ Did("cast_to")
    /\ call.input.kind = "Column"
    /\ Returned(TypeOf(call.input), "Int32")
    /\ call.target = "Struct"
    /\ IsErr(call.result)
    /\ call.result.kind = "Plan"

(***************************************************************************)
(* C4  As claimed: nullable of a BinaryExpr is true iff nullable of the    *)
(* left operand is true or nullable of the right operand is true, and      *)
(* false exactly when both operands are non-nullable.                      *)
(***************************************************************************)
C4_BinaryNullableIffEitherOperand ==
    (Did("nullable") /\ call.input.kind = "BinaryExpr") =>
        LET l == NullableOf(call.input.left)
            r == NullableOf(call.input.right)
        IN  /\ Returned(call.result, TRUE) <=> (Returned(l, TRUE) \/ Returned(r, TRUE))
            /\ Returned(call.result, FALSE) <=> (Returned(l, FALSE) /\ Returned(r, FALSE))

(***************************************************************************)
(* C4, amended: when nullable of the left operand succeeds, nullable of    *)
(* the BinaryExpr is true iff either operand is nullable and false exactly *)
(* when both are non-nullable; when nullable of the left operand fails,    *)
(* the call fails with that error, whatever the right operand.             *)
(***************************************************************************)
C4_BinaryNullableWhenLeftResolves ==
    (Did("nullable") /\ call.input.kind = "BinaryExpr") =>
        LET l == NullableOf(call.input.left)
            r == NullableOf(call.input.right)
        IN  /\ IsOk(l) =>
                /\ Returned(call.result, TRUE)
                      <=> (Returned(l, TRUE) \/ Returned(r, TRUE))
                /\ Returned(call.result, FALSE)
                      <=> (Returned(l, FALSE) /\ Returned(r, FALSE))
            /\ ~IsOk(l) => call.result = l

\* A non-nullable left operand and a nullable right one: nullable.
C4_Witness ==
    /\ Did("nullable")
    /\ call.input.kind = "BinaryExpr"
    /\ Returned(NullableOf(call.input.left), FALSE)
    /\ Returned(NullableOf(call.input.right), TRUE)
    /\ Returned(call.result, TRUE)

(***************************************************************************)
(* C5  As claimed: if get_type(e, s) succeeds, get_type succeeds on every  *)
(* sub-expression of e.                                                    *)
(***************************************************************************)
C5_EverySubExprHasType ==
    (Did("get_type") /\ IsOk(call.result)) =>
        \A sub \in SubExprs(call.input) : IsOk(TypeOf(sub))

\* The children get_type descends into: the child of Alias, Sort and
\* Negative, the arguments of a function call, both operands of a
\* BinaryExpr, the parent of a GetIndexedField, the first then of a Case.
TypedChildren(e) ==
    CASE e.kind \in {"Alias", "Sort", "Negative", "GetIndexedField"} -> {e.expr}
      [] e.kind \in FunctionKinds -> {e.args[i] : i \in 1..Len(e.args)}
      [] e.kind = "BinaryExpr" -> {e.left, e.right}
      [] e.kind = "Case" ->
            {e.when_then_expr[i][2] : i \in 1..Len(e.when_then_expr) \cap {1}}
      [] OTHER -> {}

RECURSIVE TypedSubExprs(_)
TypedSubExprs(e) ==
    TypedChildren(e) \cup UNION {TypedSubExprs(c) : c \in TypedChildren(e)}

(***************************************************************************)
(* C5, amended: if get_type(e, s) succeeds, get_type succeeds on every     *)
(* sub-expression it descends into (TypedSubExprs).  The operands of Cast, *)
(* TryCast, Not, IsNull, IsNotNull, Between and InList are not resolved:   *)
(* the type is the target type, or Boolean, whether they resolve or not;   *)
(* of a Case only the first then-branch is resolved, and gives the type.   *)
(***************************************************************************)
C5_EveryTypedSubExprHasType ==
    Did("get_type") =>
        /\ IsOk(call.result) =>
              \A sub \in TypedSubExprs(call.input) : IsOk(TypeOf(sub))
        /\ call.input.kind \in {"Cast", "TryCast"} =>
              call.result = Ok(call.input.data_type)
        /\ call.input.kind \in {"Not", "IsNull", "IsNotNull", "Between", "InList"} =>
              call.result = Ok("Boolean")
        /\ (call.input.kind = "Case" /\ call.input.when_then_expr # <<>>) =>
              call.result = TypeOf(call.input.when_then_expr[1][2])

\* A binary expression over two columns resolved, and so did both columns.
C5_Witness ==
    /\ Did("get_type")
    /\ IsOk(call.result)
    /\ call.input.kind = "BinaryExpr"
    /\ call.input.left.kind = "Column"
    /\ call.input.right.kind = "Column"
    /\ \A sub \in TypedSubExprs(call.input) : IsOk(TypeOf(sub))

\* r is the failure of a column lookup or of a nested-field lookup.
LookupFailure(r) ==
    /\ IsErr(r)
    /\ \/ r.kind = "SchemaError"
       \/ r.kind = "Plan" /\ r.detail[1] = "get_indexed_field"

(***************************************************************************)
(* C6  As claimed: nullable(e, s) fails on a column or nested-field lookup *)
(* exactly when get_type(e, s) fails on one.                               *)
(***************************************************************************)
C6_SameLookupFailures ==
    Did("nullable") =>
        (LookupFailure(call.result) <=> LookupFailure(TypeOf(call.input)))

\* The expressions on which both resolvers walk the same sub-expressions:
\* leaves, GetIndexedField (both resolve the parent's type), TryCast, IsNull
\* and IsNotNull (neither looks at the operand), and Alias, Sort and
\* Negative over such an expression.
RECURSIVE SameWalk(_)
SameWalk(e) ==
    \/ e.kind \in {"Column", "Literal", "ScalarVariable", "Wildcard",
                   "QualifiedWildcard", "GetIndexedField", "TryCast",
                   "IsNull", "IsNotNull"}
    \/ e.kind \in {"Alias", "Sort", "Negative"} /\ SameWalk(e.expr)

(***************************************************************************)
(* C6, amended: on a leaf, a GetIndexedField, a TryCast, an IsNull, an     *)
(* IsNotNull, or an Alias, Sort or Negative over one of these (SameWalk),  *)
(* nullable(e, s) fails exactly when get_type(e, s) fails, and with the    *)
(* same error.                                                             *)
(***************************************************************************)
C6_SameFailuresOnSameWalk ==
    (Did("nullable") /\ SameWalk(call.input)) =>
        LET t == TypeOf(call.input)
        IN  /\ IsOk(call.result) <=> IsOk(t)
            /\ ~IsOk(call.result) => call.result = t

\* nullable of an Alias, Sort or Negative over a lookup failed as get_type
\* does.
C6_Witness ==
    /\ Did("nullable")
    /\ call.input.kind \in {"Alias", "Sort", "Negative"}
    /\ SameWalk(call.input)
    /\ LookupFailure(call.result)
    /\ call.result = TypeOf(call.input)

(***************************************************************************)
(* C7  Wildcard and QualifiedWildcard always fail resolution: get_type,    *)
(* nullable, to_field and cast_to return an error under every schema.      *)
(***************************************************************************)
C7_WildcardsAlwaysFail ==
    (call.op # "none" /\ call.input.kind \in {"Wildcard", "QualifiedWildcard"}) =>
        /\ IsErr(call.result)
        /\ Did("get_type") \/ Did("nullable") => call.result.kind = "Internal"
        /\ IsErr(TypeOf(call.input))
        /\ IsErr(NullableOf(call.input))

\* cast_to on a qualified wildcard failed under a schema that has columns.
C7_Witness ==
    /\ Did("cast_to")
    /\ call.input.kind = "QualifiedWildcard"
    /\ schema # <<>>
    /\ IsErr(call.result)

(***************************************************************************)
(* C8  As claimed: for Not, IsNull and IsNotNull, get_type returns Boolean *)
(* and nullable returns a value that does not depend on the operand (for   *)
(* IsNull and IsNotNull, false).                                           *)
(***************************************************************************)
C8_BooleanWithFixedNullability ==
    /\ (Did("get_type") /\ call.input.kind \in {"Not", "IsNull", "IsNotNull"})
          => call.result = Ok("Boolean")
    /\ (Did("nullable") /\ call.input.kind \in {"IsNull", "IsNotNull"})
          => call.result = Ok(FALSE)
    /\ (Did("nullable") /\ call.input.kind = "Not" /\ IsOk(call.result))
          => \A o \in Leaves :
                IsOk(NullableOf(o)) => call.result = NullableOf(Unary("Not", o))

(***************************************************************************)
(* C8, amended: for Not, IsNull and IsNotNull, get_type returns Boolean    *)
(* whatever the operand; nullable of IsNull and of IsNotNull is false      *)
(* whatever the operand; nullable of Not is nullable of its operand.       *)
(***************************************************************************)
C8_BooleanAndNotForwards ==
    /\ (Did("get_type") /\ call.input.kind \in {"Not", "IsNull", "IsNotNull"})
          => call.result = Ok("Boolean")
    /\ (Did("nullable") /\ call.input.kind \in {"IsNull", "IsNotNull"})
          => call.result = Ok(FALSE)
    /\ (Did("nullable") /\ call.input.kind = "Not")
          => call.result = NullableOf(call.input.expr)

\* Not over a nullable operand is nullable.
C8_Witness ==
    /\ Did("nullable")
    /\ call.input.kind = "Not"
    /\ Returned(NullableOf(call.input.expr), TRUE)
    /\ Returned(call.result, TRUE)

(***************************************************************************)
(* C9  When to_field succeeds, the field's type is get_type(e, s) and its  *)
(* nullable flag is nullable(e, s); a Column gives its name and relation,  *)
(* every other expression no qualifier and its canonical name.  to_field   *)
(* fails whenever get_type or nullable fails.                              *)
(***************************************************************************)
C9_ToFieldFollowsResolvers ==
    Did("to_field") =>
        LET t == TypeOf(call.input)
            n == NullableOf(call.input)
        IN  /\ IsOk(call.result) =>
                /\ Returned(t, call.result.val.data_type)
                /\ Returned(n, call.result.val.nullable)
                /\ call.input.kind = "Column" =>
                      /\ call.result.val.name = call.input.name
                      /\ call.result.val.qualifier = call.input.relation
                /\ call.input.kind # "Column" =>
                      /\ call.result.val.qualifier = <<>>
                      /\ Returned(name(call.input, schema), call.result.val.name)
            /\ (~IsOk(t) \/ ~IsOk(n)) => ~IsOk(call.result)

\* A Cast directly over a qualified column projects to an unqualified field.
C9_Witness ==
    /\ Did("to_field")
    /\ call.input.kind = "Cast"
    /\ call.input.expr.kind = "Column"
    /\ call.input.expr.relation # <<>>
    /\ IsOk(call.result)
    /\ call.result.val.qualifier = <<>>

(***************************************************************************)
(* C10  get_type is total: on every expression and schema it returns a     *)
(* type or an error and never aborts; a Case takes its type from its first *)
(* then-branch, and a Case with no when/then pair yields an error.         *)
(***************************************************************************)
C10_GetTypeIsTotal ==
    Did("get_type") =>
        /\ call.result # Panic
        /\ (call.input.kind = "Case" /\ call.input.when_then_expr # <<>>)
              => call.result = TypeOf(call.input.when_then_expr[1][2])
        /\ (call.input.kind = "Case" /\ call.input.when_then_expr = <<>>)
              => IsErr(call.result)

====
